---- MODULE Spec2Model ----
(***************************************************************************)
(* Model of hyper's client Response (src/client/response.rs):              *)
(* Response::new, Response::status_raw, Response::unwrap and the Reader    *)
(* impl, over a byte transport wrapped in a std::io::BufferedReader.       *)
(*                                                                         *)
(* The wire is a sequence of bytes: StatusLen bytes of status line, HdrLen *)
(* bytes of header block, then the tail (body and whatever follows it).    *)
(* A position is a count of wire bytes: tpos is how many bytes have been   *)
(* taken out of the transport, bpos how many have been handed out by the   *)
(* BufferedReader; the bytes in between sit in the read-ahead buffer.      *)
(***************************************************************************)
EXTENDS Integers, Sequences, FiniteSets, TLC

\* ---------------------------------------------------------------- bounds
BufCap == 3        \* capacity of the BufferedReader's buffer
MaxTail == 3       \* longest plain tail on the wire
MaxChunkBody == 2  \* longest body of a chunk-encoded tail
MaxRead == 2       \* longest caller buffer handed to read
StatusLen == 1     \* bytes of the status line
HdrLen == 2        \* bytes of the header block (terminator included)

Min(a, b) == IF a < b THEN a ELSE b

\* ------------------------------------------------------------ wire inputs
Digits == {"0", "1", "2", "3"}

DigitVal(c) == IF c = "0" THEN 0 ELSE IF c = "1" THEN 1 ELSE IF c = "2" THEN 2 ELSE 3

\* from_str::<uint>: a non-empty run of digits, read in base ten
RECURSIVE UintVal(_)
UintVal(s) ==
    IF s = <<>> THEN 0
    ELSE 10 * UintVal(SubSeq(s, 1, Len(s) - 1)) + DigitVal(s[Len(s)])

None == [some |-> FALSE, val |-> 0]
Some(v) == [some |-> TRUE, val |-> v]

ParseUint(s) ==
    IF s = <<>> \/ (\E i \in 1..Len(s) : s[i] \notin Digits)
    THEN None
    ELSE Some(UintVal(s))

PlainBytes == <<"a", "b", "c", "d", "e", "f">>

PlainTails == {SubSeq(PlainBytes, 1, n) : n \in 0..MaxTail}

DigitOf(n) == IF n = 0 THEN "0" ELSE IF n = 1 THEN "1" ELSE IF n = 2 THEN "2" ELSE "3"

\* one chunk holding the body, then the zero-size chunk; "n" is a line ending
ChunkEncode(b) ==
    IF b = <<>> THEN <<"0", "n", "n">>
    ELSE <<DigitOf(Len(b)), "n">> \o b \o <<"n", "0", "n", "n">>

ChunkedTails ==
    {ChunkEncode(SubSeq(PlainBytes, 1, n)) \o t :
        n \in 0..MaxChunkBody, t \in {<<>>, <<"z">>}}

Tails == PlainTails \cup ChunkedTails

\* raw status lines: malformed, or a numeric code with its reason text
StatusLines ==
    {[malformed |-> TRUE, code |-> 0, reason |-> ""],
     [malformed |-> FALSE, code |-> 200, reason |-> "OK"],
     [malformed |-> FALSE, code |-> 999, reason |-> "Odd"]}

Absent == [present |-> FALSE, val |-> <<>>]
Present(v) == [present |-> TRUE, val |-> v]

\* raw Transfer-Encoding values: the coding tokens in wire order
TEValues ==
    {Absent, Present(<<>>), Present(<<"chunked">>), Present(<<"gzip">>),
     Present(<<"gzip", "chunked">>), Present(<<"chunked", "gzip">>)}

\* raw Content-Length values: the characters of the field value
CLValues ==
    {Absent, Present(<<"0">>), Present(<<"2">>), Present(<<"1", "0">>),
     Present(<<"x">>), Present(<<"-", "1">>), Present(<<>>)}

Wires ==
    [status : StatusLines, te : TEValues, cl : CLValues, tail : Tails]

VARIABLES
    wire,       \* what the server sends: status line, headers, tail
    phase,      \* "init", "resp", "failed", "panicked", "unwrapped"
    tpos,       \* bytes taken out of the transport so far
    bpos,       \* bytes handed out by the BufferedReader so far
    body,       \* the HttpReader variant and its remaining count
    resp,       \* the Response's status and status_raw, when one exists
    err,        \* the error Response::new returned, "" when none
    hdrParsed,  \* Headers::from_raw has run
    viaNew,     \* the Response came from Response::new
    got,        \* bytes the read calls on the Response returned, in order
    lastRes,    \* result of the last read on the Response
    after,      \* bytes read from the transport unwrap gave back
    streamRes   \* result of the last read on that transport

vars ==
    <<wire, phase, tpos, bpos, body, resp, err, hdrParsed, viaNew, got,
      lastRes, after, streamRes>>

\* the bytes on the transport, in order
Bytes ==
    [i \in 1..StatusLen |-> "S"] \o [i \in 1..HdrLen |-> "H"] \o wire.tail

HdrEnd == StatusLen + HdrLen

\* ---------------------------------------------------------- BufferedReader
Buf(b, t) == [bpos |-> b, tpos |-> t]

\* BufferedReader::new with a prefetch, which the real one does not do
BufferedNewPrefetch(t, W) == Buf(t, Min(t + BufCap, Len(W)))

\* BufferedReader::new: an empty buffer over the transport, nothing read
BufferedNew(t, W) == Buf(t, t)

\* inner.read into the empty buffer: any non-zero count the transport gives
Fill(W, t) == (t + 1)..Min(t + BufCap, Len(W))

\* BufferedReader::read of up to k bytes; n = 0 is EndOfFile
BufRead(W, s, k) ==
    IF s.bpos < s.tpos
    THEN LET n == Min(k, s.tpos - s.bpos)
         IN  {[n |-> n, bpos |-> s.bpos + n, tpos |-> s.tpos]}
    ELSE IF s.tpos = Len(W)
    THEN {[n |-> 0, bpos |-> s.bpos, tpos |-> s.tpos]}
    ELSE {[n |-> Min(k, t2 - s.bpos),
           bpos |-> s.bpos + Min(k, t2 - s.bpos),
           tpos |-> t2] : t2 \in Fill(W, s.tpos)}

\* n calls of read_byte; ok is FALSE when the transport ended first
RECURSIVE ReadBytes(_, _, _)
ReadBytes(W, s, n) ==
    IF n = 0
    THEN {[ok |-> TRUE, bpos |-> s.bpos, tpos |-> s.tpos]}
    ELSE UNION {IF r.n = 0
                THEN {[ok |-> FALSE, bpos |-> r.bpos, tpos |-> r.tpos]}
                ELSE ReadBytes(W, Buf(r.bpos, r.tpos), n - 1) :
                r \in BufRead(W, s, 1)}

\* BufferedReader::unwrap: the inner transport; the buffer is dropped
BufferedUnwrap(s) == s.tpos

\* --------------------------------------------------------------- HttpReader
NoBody == [kind |-> "none", rem |-> -1]
Panic == [kind |-> "panic", rem |-> -1]
EofReader == [kind |-> "Eof", rem |-> -1]
SizedReader(n) == [kind |-> "Sized", rem |-> n]
ChunkedReader(r) == [kind |-> "Chunked", rem |-> r]   \* rem -1 is None

Out(res, data, b, p, t) ==
    [res |-> res, data |-> data, body |-> b, bpos |-> p, tpos |-> t]

SizedRead(W, b, s, k) ==
    IF b.rem = 0
    THEN {Out("eof", <<>>, b, s.bpos, s.tpos)}
    ELSE {IF r.n = 0
          THEN Out("eof", <<>>, b, r.bpos, r.tpos)
          ELSE Out("ok", SubSeq(W, s.bpos + 1, r.bpos),
                   SizedReader(b.rem - r.n), r.bpos, r.tpos) :
          r \in BufRead(W, s, Min(k, b.rem))}

EofRead(W, b, s, k) ==
    {IF r.n = 0
     THEN Out("eof", <<>>, b, r.bpos, r.tpos)
     ELSE Out("ok", SubSeq(W, s.bpos + 1, r.bpos), b, r.bpos, r.tpos) :
     r \in BufRead(W, s, k)}

\* the chunk-size line starting after position p: how many bytes it takes
\* and the size it gives (None when malformed or cut short)
ChunkSizeLine(W, p) ==
    LET stops == {j \in (p + 1)..Len(W) : W[j] \notin Digits}
    IN  IF stops = {}
        THEN [len |-> Len(W) - p + 1, size |-> None]
        ELSE LET j == CHOOSE x \in stops : \A y \in stops : x <= y
             IN  [len |-> j - p,
                  size |-> IF W[j] = "n"
                           THEN ParseUint(SubSeq(W, p + 1, j - 1))
                           ELSE None]

\* the data part of a chunked read, once the chunk size rem is known; prev
\* is the reader as it stays when the read fails
ChunkData(W, prev, rem, s, k) ==
    UNION {IF r.n = 0
           THEN {Out("err", <<>>, prev, r.bpos, r.tpos)}
           ELSE IF rem - r.n > 0
           THEN {Out("ok", SubSeq(W, s.bpos + 1, r.bpos),
                     ChunkedReader(rem - r.n), r.bpos, r.tpos)}
           ELSE {IF e.ok /\ W[e.bpos] = "n"
                 THEN Out("ok", SubSeq(W, s.bpos + 1, r.bpos),
                          ChunkedReader(-1), e.bpos, e.tpos)
                 ELSE Out("err", <<>>, prev, e.bpos, e.tpos) :
                 e \in ReadBytes(W, Buf(r.bpos, r.tpos), 1)} :
           r \in BufRead(W, s, Min(rem, k))}

ChunkedRead(W, b, s, k) ==
    IF b.rem = 0
    THEN {Out("eof", <<>>, b, s.bpos, s.tpos)}
    ELSE IF b.rem > 0
    THEN ChunkData(W, b, b.rem, s, k)
    ELSE LET line == ChunkSizeLine(W, s.bpos)
         IN  UNION {IF ~(h.ok /\ line.size.some)
                    THEN {Out("err", <<>>, b, h.bpos, h.tpos)}
                    ELSE IF line.size.val = 0
                    THEN {Out("eof", <<>>, ChunkedReader(0), h.bpos, h.tpos)}
                    ELSE ChunkData(W, b, line.size.val, Buf(h.bpos, h.tpos), k) :
                    h \in ReadBytes(W, s, line.len)}

\* HttpReader::read: dispatch on the variant
BodyRead(W, b, s, k) ==
    IF b.kind = "Sized" THEN SizedRead(W, b, s, k)
    ELSE IF b.kind = "Chunked" THEN ChunkedRead(W, b, s, k)
    ELSE EofRead(W, b, s, k)

\* ------------------------------------------------------------------ headers
\* Headers::has::<TransferEncoding>: a header of that name was received
HasTE(h) == h.te.present

\* one coding token to its Encoding
ParseCoding(tok) == IF tok = "chunked" THEN "Chunked" ELSE "Gzip"

\* Headers::get::<TransferEncoding>: the codings, in order
GetTE(h) ==
    IF h.te.present
    THEN Some([i \in 1..Len(h.te.val) |-> ParseCoding(h.te.val[i])])
    ELSE [some |-> FALSE, val |-> <<>>]

\* Headers::has::<ContentLength>: a header of that name was received
HasCL(h) == h.cl.present

\* Headers::get::<ContentLength>: the typed value, None when the field value
\* is no unsigned integer
GetCL(h) == IF h.cl.present THEN ParseUint(h.cl.val) ELSE None

Contains(seq, x) == \E i \in 1..Len(seq) : seq[i] = x

\* ------------------------------------------------------------------- status
KnownCodes == {200}

\* FromPrimitive::from_u16 for StatusCode
FromU16(code) == IF code \in KnownCodes THEN Some(code) ELSE None

\* an unmapped code kept as a catch-all status instead of failing
MapStatusCatchAll(code) == [ok |-> TRUE, status |-> code]

\* the match on from_u16 in Response::new
MapStatus(code) ==
    LET s == FromU16(code)
    IN  IF s.some THEN [ok |-> TRUE, status |-> s.val]
        ELSE [ok |-> FALSE, status |-> 0]

\* ------------------------------------------------------------ Response::new
\* Content-Length consulted before Transfer-Encoding
SelectBodyLengthFirst(h) ==
    IF HasCL(h) /\ GetCL(h).some THEN SizedReader(GetCL(h).val)
    ELSE IF HasTE(h) /\ Contains(GetTE(h).val, "Chunked") THEN ChunkedReader(-1)
    ELSE EofReader

\* the sized reader given one byte too many
SelectBodyOffByOne(h) ==
    IF HasTE(h)
    THEN IF Contains(GetTE(h).val, "Chunked") THEN ChunkedReader(-1) ELSE EofReader
    ELSE IF HasCL(h)
    THEN IF GetCL(h).some THEN SizedReader(GetCL(h).val + 1) ELSE Panic
    ELSE EofReader

\* no framing header taken as an empty body
SelectBodyEmptyDefault(h) ==
    IF HasTE(h)
    THEN IF Contains(GetTE(h).val, "Chunked") THEN ChunkedReader(-1) ELSE EofReader
    ELSE IF HasCL(h)
    THEN IF GetCL(h).some THEN SizedReader(GetCL(h).val) ELSE Panic
    ELSE SizedReader(0)

\* the if / else-if / else that picks the body reader; Panic is unreachable!()
SelectBody(h) ==
    IF HasTE(h)
    THEN LET c == GetTE(h)
         IN  IF c.some
             THEN IF Contains(c.val, "Chunked")
                  THEN ChunkedReader(-1)
                  ELSE EofReader
             ELSE Panic
    ELSE IF HasCL(h)
    THEN LET l == GetCL(h)
         IN  IF l.some THEN SizedReader(l.val) ELSE Panic
    ELSE EofReader

\* the body reader built over a second BufferedReader around the transport
BodyStreamRewrapped(s) == Buf(s.tpos, s.tpos)

\* the stream the body reader is given: the one that parsed the headers
BodyStream(s) == s

NoResponse == [some |-> FALSE, status |-> 0, code |-> 0, reason |-> ""]

Response(status, code, reason) ==
    [some |-> TRUE, status |-> status, code |-> code, reason |-> reason]

Result(ph, e, hp, b, r, s) ==
    [phase |-> ph, err |-> e, hdrParsed |-> hp, body |-> b, resp |-> r,
     bpos |-> s.bpos, tpos |-> s.tpos]

\* every way Response::new can end on wire w, whose bytes are W
NewResults(W, w) ==
    LET stream == BufferedNew(0, W)
    IN  IF w.status.malformed
        THEN {Result("failed", "HttpStatusLineError", FALSE, NoBody, NoResponse, r) :
                 r \in UNION {ReadBytes(W, stream, j) : j \in 1..StatusLen}}
        ELSE UNION {
            LET m == MapStatus(w.status.code)
            IN  IF ~m.ok
                THEN {Result("failed", "HttpStatusError", FALSE, NoBody, NoResponse, r1)}
                ELSE {LET b == SelectBody(w)
                      IN  IF b = Panic
                          THEN Result("panicked", "", TRUE, NoBody, NoResponse, r2)
                          ELSE Result("resp", "", TRUE, b,
                                      Response(m.status, w.status.code, w.status.reason),
                                      BodyStream(r2)) :
                      r2 \in ReadBytes(W, Buf(r1.bpos, r1.tpos), HdrLen)} :
            r1 \in ReadBytes(W, stream, StatusLen)}

\* Response::status_raw: the raw code and reason of a Response
StatusRaw(r) == <<r.code, r.reason>>

\* ------------------------------------------------------------------ actions
Init ==
    /\ wire \in Wires
    /\ phase = "init"
    /\ tpos = 0
    /\ bpos = 0
    /\ body = NoBody
    /\ resp = NoResponse
    /\ err = ""
    /\ hdrParsed = FALSE
    /\ viaNew = FALSE
    /\ got = <<>>
    /\ lastRes = "none"
    /\ after = <<>>
    /\ streamRes = "none"

\* Response::new(stream)
New ==
    /\ phase = "init"
    /\ \E o \in NewResults(Bytes, wire) :
        /\ phase' = o.phase
        /\ err' = o.err
        /\ hdrParsed' = o.hdrParsed
        /\ body' = o.body
        /\ resp' = o.resp
        /\ bpos' = o.bpos
        /\ tpos' = o.tpos
    /\ viaNew' = TRUE
    /\ UNCHANGED <<wire, got, lastRes, after, streamRes>>

DirectBodies ==
    {EofReader, ChunkedReader(-1)} \cup {SizedReader(n) : n \in 0..MaxTail}

\* a Response put together field by field around a freshly buffered
\* transport, as tests::test_unwrap does
Wrap(b) ==
    /\ phase = "init"
    /\ LET stream == BufferedNew(tpos, Bytes)
       IN  /\ bpos' = stream.bpos
           /\ tpos' = stream.tpos
    /\ body' = b
    /\ resp' = Response(200, 200, "OK")
    /\ phase' = "resp"
    /\ UNCHANGED <<wire, err, hdrParsed, viaNew, got, lastRes, after, streamRes>>

\* Reader::read on the Response with a buffer of k bytes
Read(k) ==
    /\ phase = "resp"
    /\ \E o \in BodyRead(Bytes, body, Buf(bpos, tpos), k) :
        /\ body' = o.body
        /\ bpos' = o.bpos
        /\ tpos' = o.tpos
        /\ got' = got \o o.data
        /\ lastRes' = o.res
    /\ UNCHANGED <<wire, phase, resp, err, hdrParsed, viaNew, after, streamRes>>

\* Response::unwrap: body.unwrap().unwrap()
Unwrap ==
    /\ phase = "resp"
    /\ phase' = "unwrapped"
    /\ tpos' = BufferedUnwrap(Buf(bpos, tpos))
    /\ UNCHANGED <<wire, bpos, body, resp, err, hdrParsed, viaNew, got, lastRes,
                   after, streamRes>>

\* a read of up to k bytes on the transport that unwrap returned
StreamRead(k) ==
    /\ phase = "unwrapped"
    /\ streamRes # "eof"
    /\ IF tpos = Len(Bytes)
       THEN /\ streamRes' = "eof"
            /\ UNCHANGED <<tpos, after>>
       ELSE \E t2 \in (tpos + 1)..Min(tpos + k, Len(Bytes)) :
            /\ tpos' = t2
            /\ after' = after \o SubSeq(Bytes, tpos + 1, t2)
            /\ streamRes' = "ok"
    /\ UNCHANGED <<wire, phase, bpos, body, resp, err, hdrParsed, viaNew, got,
                   lastRes>>

Next ==
    \/ New
    \/ \E b \in DirectBodies : Wrap(b)
    \/ \E k \in 1..MaxRead : Read(k)
    \/ Unwrap
    \/ \E k \in 1..MaxRead : StreamRead(k)

Spec == Init /\ [][Next]_vars

\* ------------------------------------------------------------------- claims
Built == viaNew /\ phase \in {"resp", "unwrapped"}

WireChunked == \E i \in 1..Len(wire.te.val) : wire.te.val[i] = "chunked"

\* C1: when a Transfer-Encoding header is present, Response::new picks the
\* chunked reader if "chunked" is among the codings and the read-to-close
\* reader otherwise, whatever Content-Length says; never the sized reader.
C1_TransferEncodingDecides ==
    (viaNew /\ hdrParsed /\ wire.te.present) =>
        /\ phase \in {"resp", "unwrapped"}
        /\ body.kind = IF WireChunked THEN "Chunked" ELSE "Eof"
        /\ body.kind # "Sized"

C1_Witness ==
    /\ viaNew
    /\ phase = "resp"
    /\ wire.te = Present(<<"gzip", "chunked">>)
    /\ wire.cl = Present(<<"2">>)
    /\ body.kind = "Chunked"

ValidLength == wire.cl.present /\ ParseUint(wire.cl.val).some

WireLength == UintVal(wire.cl.val)

SizedCase == viaNew /\ hdrParsed /\ ~wire.te.present /\ ValidLength

\* C2: with a valid Content-Length n and no Transfer-Encoding, Response::new
\* picks the sized reader with length n; the reads never return more than n
\* bytes in total, and once n bytes are out every further read reports
\* end-of-stream, also when the transport holds more.
C2_FixedLengthBounded ==
    /\ [](SizedCase =>
            /\ phase \in {"resp", "unwrapped"}
            /\ body.kind = "Sized"
            /\ body.rem = WireLength - Len(got)
            /\ Len(got) <= WireLength)
    /\ [][(SizedCase /\ phase = "resp" /\ phase' = "resp"
            /\ Len(got) = WireLength)
          => (got' = got /\ lastRes' = "eof")]_vars

C2_Witness ==
    /\ SizedCase
    /\ WireLength = 2
    /\ Len(got) = 2
    /\ lastRes = "eof"
    /\ Len(wire.tail) = 3
    /\ bpos < Len(Bytes)

EofCase == viaNew /\ hdrParsed /\ ~wire.te.present /\ ~wire.cl.present

\* C3: with neither header, Response::new picks the read-to-close reader;
\* the reads return the wire bytes after the headers, report end-of-stream
\* only when all of them are out, and do report it then.
C3_ReadToClose ==
    /\ [](EofCase =>
            /\ phase \in {"resp", "unwrapped"}
            /\ body.kind = "Eof"
            /\ lastRes # "err"
            /\ got = SubSeq(Bytes, HdrEnd + 1, HdrEnd + Len(got))
            /\ (lastRes = "eof" => got = wire.tail))
    /\ [][(EofCase /\ phase = "resp" /\ phase' = "resp"
            /\ got = wire.tail)
          => (got' = got /\ lastRes' = "eof")]_vars

C3_Witness ==
    /\ EofCase
    /\ Len(wire.tail) = 3
    /\ got = wire.tail
    /\ lastRes = "eof"

\* where the body ends on the wire, as the reads have established it
BodyEnd == IF body.kind = "Chunked" THEN bpos ELSE HdrEnd + Len(got)

\* the transport unwrap returned stands at wire position p
StreamAt(p) ==
    /\ tpos = p + Len(after)
    /\ after = SubSeq(Bytes, p + 1, p + Len(after))

\* C4: unwrap after the body was read to end-of-stream returns the
\* transport positioned right after the body: its next read yields the
\* first byte that follows the body on the wire.
C4_UnwrapAfterDrain ==
    (viaNew /\ phase = "unwrapped" /\ lastRes = "eof") => StreamAt(BodyEnd)

\* C5: unwrap before the body is drained returns the transport positioned
\* after exactly the bytes the reads reported: reads then transport give
\* the wire bytes after the headers, none skipped, none twice.
C5_UnwrapBeforeDrain ==
    (viaNew /\ phase = "unwrapped" /\ lastRes \in {"none", "ok"}) =>
        /\ StreamAt(bpos)
        /\ body.kind \in {"Sized", "Eof"} =>
               got \o after =
                   SubSeq(Bytes, HdrEnd + 1, HdrEnd + Len(got) + Len(after))

BadStatus == wire.status.malformed \/ wire.status.code \notin KnownCodes

\* C6: a malformed status line or a code without a StatusCode makes
\* Response::new return an error and no Response; for the unmapped code the
\* error is HttpStatusError, returned before the headers are parsed and
\* before a body reader is chosen, whatever the headers are.
C6_StatusAllOrNothing ==
    (viaNew /\ BadStatus) =>
        /\ phase = "failed"
        /\ err # ""
        /\ ~resp.some
        /\ ~wire.status.malformed =>
               /\ err = "HttpStatusError"
               /\ ~hdrParsed
               /\ body = NoBody
               /\ bpos = StatusLen

C6_Witness ==
    /\ viaNew
    /\ wire.status.code = 999
    /\ wire.te = Present(<<"chunked">>)
    /\ wire.cl = Present(<<"x">>)
    /\ phase = "failed"
    /\ err = "HttpStatusError"

\* C7: when Response::new fails on an unmapped code, the raw status (code
\* and reason) can still be read through status_raw.
C7_RawStatusAfterFailure ==
    (viaNew /\ err = "HttpStatusError") =>
        /\ resp.some
        /\ StatusRaw(resp) = <<wire.status.code, wire.status.reason>>

\* C8: a Content-Length that is no non-negative integer, without
\* Transfer-Encoding, makes Response::new return an error value: no abnormal
\* abort, no other framing, no Response.
C8_InvalidLengthIsError ==
    (viaNew /\ hdrParsed /\ ~wire.te.present /\ wire.cl.present
        /\ ~ParseUint(wire.cl.val).some) =>
        /\ phase = "failed"
        /\ err # ""
        /\ ~resp.some

Untouched == ~viaNew /\ phase = "unwrapped" /\ lastRes = "none"

C10_BodyStartsAfterHeaders ==
    Built =>
        /\ HdrEnd <= bpos
        /\ lastRes = "none" => bpos = HdrEnd
        /\ body.kind \in {"Sized", "Eof"} =>
               /\ bpos = HdrEnd + Len(got)
               /\ got = SubSeq(Bytes, HdrEnd + 1, bpos)
        /\ (body.kind = "Chunked" /\ got # <<>>) =>
               got[1] = Bytes[HdrEnd + ChunkSizeLine(Bytes, HdrEnd).len + 1]

C10_Witness ==
    /\ Built
    /\ phase = "resp"
    /\ body.kind = "Eof"
    /\ Len(wire.tail) = 3
    /\ got = <<"a">>
    /\ tpos = Len(Bytes)

====
